---- MODULE Spec2Model ----
(***************************************************************************)
(* Model of src/src/pycs/hashing.py: PycsDict, a string-keyed hash table   *)
(* with an array of slots, each slot being None, a single PycsDictEntry or *)
(* a Python list used as a collision bucket.                               *)
(*                                                                         *)
(* Python integers are unbounded, and _get_hash never reduces its          *)
(* accumulator, so a digest is modelled as an arbitrary-precision natural: *)
(* a little-endian sequence of base-256 limbs.                             *)
(***************************************************************************)
EXTENDS Integers, Sequences, FiniteSets, TLC

(***************************************************************************)
(* Bounds of the model.                                                    *)
(***************************************************************************)
\* Largest constructor argument explored; the smallest is -1.
MaxSize == 2
\* Longest collision bucket (Python list) the model lets __setitem__ build.
MaxChain == 3

\* Constructor arguments: negative, zero and positive sizes.
Sizes == (0 - 1)..MaxSize

\* Keys are strings, written as the sequence of ord() of their characters:
\* "", "a", "c", "u", "y".  The digests of "a", "u" and "y" are 0 modulo 2, 4
\* and 6, so the three share a slot at every capacity explored; "c" joins
\* them at capacity 2 only, and "" lives in a slot of its own.
Keys == {<< >>, <<97>>, <<99>>, <<117>>, <<121>>}

\* Payload values.
Values == {"v1", "v2"}

(***************************************************************************)
(* Arbitrary-precision naturals (Python int), little-endian base 256.      *)
(***************************************************************************)
Base == 256

RECURSIVE BitXor(_, _)
\* x ^ y on naturals.
BitXor(x, y) ==
    IF x = 0 THEN y
    ELSE IF y = 0 THEN x
    ELSE (((x % 2) + (y % 2)) % 2) + 2 * BitXor(x \div 2, y \div 2)

RECURSIVE BigXor(_, _)
\* a ^ b on limb sequences.
BigXor(a, b) ==
    IF a = << >> THEN b
    ELSE IF b = << >> THEN a
    ELSE << BitXor(Head(a), Head(b)) >> \o BigXor(Tail(a), Tail(b))

RECURSIVE BigFromNat(_)
\* The limb sequence of a natural that fits a machine integer.
BigFromNat(n) ==
    IF n = 0 THEN << >> ELSE << n % Base >> \o BigFromNat(n \div Base)

RECURSIVE BigAddC(_, _, _)
\* a + b + carry on limb sequences.
BigAddC(a, b, carry) ==
    IF a = << >> /\ b = << >>
    THEN BigFromNat(carry)
    ELSE LET x == IF a = << >> THEN 0 ELSE Head(a)
             y == IF b = << >> THEN 0 ELSE Head(b)
             s == x + y + carry
         IN  << s % Base >> \o
             BigAddC(IF a = << >> THEN a ELSE Tail(a),
                     IF b = << >> THEN b ELSE Tail(b),
                     s \div Base)

RECURSIVE BigMulLimb(_, _, _)
\* a * m + carry, for a single limb m.
BigMulLimb(a, m, carry) ==
    IF a = << >>
    THEN BigFromNat(carry)
    ELSE LET p == Head(a) * m + carry
         IN  << p % Base >> \o BigMulLimb(Tail(a), m, p \div Base)

RECURSIVE BigMul(_, _)
\* a * b on limb sequences (schoolbook).
BigMul(a, b) ==
    IF b = << >> \/ a = << >>
    THEN << >>
    ELSE BigAddC(BigMulLimb(a, Head(b), 0), << 0 >> \o BigMul(a, Tail(b)), 0)

RECURSIVE BigMod(_, _)
\* a mod m for a positive machine integer m (Horner from the top limb).
BigMod(a, m) ==
    IF a = << >> THEN 0
    ELSE (BigMod(Tail(a), m) * Base + Head(a)) % m

\* Python's a % m for a natural a and any non-zero m: the result takes the
\* sign of the divisor.
PyMod(a, m) ==
    IF m > 0 THEN BigMod(a, m)
    ELSE LET r == BigMod(a, 0 - m) IN IF r = 0 THEN 0 ELSE r + m

(***************************************************************************)
(* PycsDict class constants.                                               *)
(***************************************************************************)
\* 14695981039346656037 = 0xCBF29CE484222325
FNV1A_OFFSET == << 37, 35, 34, 132, 228, 156, 242, 203 >>
\* 1099511628211 = 0x100000001B3
FNV1A_PRIME == << 179, 1, 0, 0, 0, 1 >>

RECURSIVE HashFrom(_, _)
\* The loop of _get_hash: fold the characters left to right.
HashFrom(hash_value, key) ==
    IF key = << >> THEN hash_value
    ELSE HashFrom(BigMul(BigXor(hash_value, BigFromNat(Head(key))), FNV1A_PRIME),
                  Tail(key))

\* PycsDict._get_hash
_get_hash(key) == HashFrom(FNV1A_OFFSET, key)

\* A bucket index reduced modulo the size (half the capacity) instead of the
\* capacity.
_get_bucket_index_size(hash_value, capacity) == PyMod(hash_value, capacity \div 2)

\* PycsDict._get_bucket_index (capacity # 0)
_get_bucket_index(hash_value, capacity) == PyMod(hash_value, capacity)

\* Digests of the modelled keys, computed once.
HashOf == [k \in Keys |-> _get_hash(k)]

(***************************************************************************)
(* Python objects held by the table and results of calls.                  *)
(***************************************************************************)
\* The None object as a table slot or bucket element.
NoneVal == [kind |-> "None"]

\* PycsDictEntry.__init__ (next_entry stays None for ever and is left out).
PycsDictEntry(key, value) == [kind |-> "PycsDictEntry", key |-> key, value |-> value]

\* A Python list used as a collision bucket.
PyList(items) == [kind |-> "list", items |-> items]

\* None as a returned value.
PyNone == "None"

\* A call that returned v, and a call that raised the exception exc.
Return(v) == [kind |-> "return", value |-> v]
Raise(exc) == [kind |-> "raise", value |-> exc]

\* [None] * n : the empty list when n <= 0.
NoneList(n) == [i \in 1..n |-> NoneVal]

\* int(capacity / 4): true division, then truncation towards zero.
IntQuarter(capacity) ==
    IF capacity >= 0 THEN capacity \div 4 ELSE 0 - ((0 - capacity) \div 4)

(***************************************************************************)
(* State.                                                                  *)
(***************************************************************************)
VARIABLES
    size,       \* self.size
    capacity,   \* self.capacity
    table,      \* self.table, a Python list (index i is table[i + 1])
    op,         \* the last call made: name, key and value arguments
    ret,        \* its outcome: Return(value) or Raise(exception)
    lastSet     \* history: for each key, the value of the last __setitem__
                \* call on it that returned, PyNone if there was none

vars == << size, capacity, table, op, ret, lastSet >>

\* PycsDict.__init__(size)
PycsDictInit(s) ==
    /\ size = (IF s = 0 THEN 8 ELSE s)
    /\ capacity = s * 2
    /\ table = NoneList(s * 2)
    /\ op = [name |-> "__init__", key |-> << >>, value |-> PyNone]
    /\ ret = Return(PyNone)
    /\ lastSet = [k \in Keys |-> PyNone]

Init == \E s \in Sizes : PycsDictInit(s)

(***************************************************************************)
(* Slot addressing: self.table[bucket_index].                              *)
(***************************************************************************)
\* Outcome of computing bucket_index and reading self.table[bucket_index]:
\* Return(position in table, 1-based) or the exception raised.
Slot(key) ==
    IF capacity = 0
    THEN Raise("ZeroDivisionError")
    ELSE LET bucket_index == _get_bucket_index(HashOf[key], capacity)
             n == Len(table)
         IN  IF bucket_index >= n \/ bucket_index < 0 - n
             THEN Raise("IndexError")
             ELSE Return(IF bucket_index < 0 THEN bucket_index + n + 1
                                             ELSE bucket_index + 1)

(***************************************************************************)
(* __getitem__                                                             *)
(***************************************************************************)
RECURSIVE ScanGet(_, _)
\* for e in bucket: if e.key == key: return e.value
ScanGet(items, key) ==
    IF items = << >> THEN Raise("KeyError")
    ELSE IF Head(items).kind = "None" THEN Raise("AttributeError")
    ELSE IF Head(items).key = key THEN Return(Head(items).value)
    ELSE ScanGet(Tail(items), key)

\* The outcome of self[key] in the current state.
__getitem__(key) ==
    LET slot == Slot(key) IN
    IF slot.kind = "raise" THEN slot
    ELSE LET entry == table[slot.value] IN
         IF entry.kind = "PycsDictEntry"
         THEN IF entry.key = key THEN Return(entry.value) ELSE Raise("KeyError")
         ELSE IF entry.kind = "list"
         THEN ScanGet(entry.items, key)
         ELSE Raise("KeyError")

\* A lookup that, like dict.setdefault, stores an entry with value None for
\* a key it does not find in an empty slot.
GetItemSetDefault(key) ==
    /\ op' = [name |-> "__getitem__", key |-> key, value |-> PyNone]
    /\ ret' = __getitem__(key)
    /\ table' = IF Slot(key).kind = "return" /\ table[Slot(key).value].kind = "None"
                THEN [table EXCEPT ![Slot(key).value] = PycsDictEntry(key, PyNone)]
                ELSE table
    /\ UNCHANGED << size, capacity, lastSet >>

GetItem(key) ==
    /\ op' = [name |-> "__getitem__", key |-> key, value |-> PyNone]
    /\ ret' = __getitem__(key)
    /\ UNCHANGED << size, capacity, table, lastSet >>

(***************************************************************************)
(* __setitem__                                                             *)
(***************************************************************************)
RECURSIVE ScanSet(_, _)
\* for e in bucket: if e.key == key: ... break
\* The position of the first element with the key, 0 if the loop ends
\* without one, -1 if it reaches a None element first (e.key raises).
ScanSet(items, key) ==
    IF items = << >> THEN 0
    ELSE IF Head(items).kind = "None" THEN 0 - 1
    ELSE IF Head(items).key = key THEN 1
    ELSE LET r == ScanSet(Tail(items), key) IN IF r > 0 THEN r + 1 ELSE r

\* The list branch without the test e.key == key: the first element of the
\* bucket takes the value.
SetInBucketNoKeyTest(items, key, value) ==
    IF items # << >> /\ Head(items).kind = "None"
    THEN [bucket |-> items, ret |-> Raise("AttributeError")]
    ELSE IF items # << >>
    THEN [bucket |-> Append([items EXCEPT ![1].value = value],
                            PycsDictEntry(key, value)),
          ret |-> Return(items[1].value)]
    ELSE [bucket |-> Append(items, PycsDictEntry(key, value)),
          ret |-> Return(value)]

\* The list branch of __setitem__: the bucket afterwards and the outcome.
SetInBucket(items, key, value) ==
    LET i == ScanSet(items, key) IN
    IF i < 0
    THEN [bucket |-> items, ret |-> Raise("AttributeError")]
    ELSE IF i > 0
    THEN [bucket |-> Append([items EXCEPT ![i].value = value],
                            PycsDictEntry(key, value)),
          ret |-> Return(items[i].value)]
    ELSE [bucket |-> Append(items, PycsDictEntry(key, value)),
          ret |-> Return(value)]

\* __setitem__ without bucket.append(entry): the new bucket holds the new
\* entry only.
__setitem__NoOldEntry(key, value) ==
    LET slot == Slot(key) IN
    IF slot.kind = "raise" THEN [table |-> table, ret |-> slot]
    ELSE LET entry == table[slot.value] IN
         IF entry.kind = "None"
         THEN [table |-> [table EXCEPT ![slot.value] = PycsDictEntry(key, value)],
               ret |-> Return(value)]
         ELSE IF entry.kind = "PycsDictEntry"
         THEN IF entry.key = key
              THEN [table |-> [table EXCEPT ![slot.value].value = value],
                    ret |-> Return(entry.value)]
              ELSE [table |-> [table EXCEPT ![slot.value] =
                                  PyList(NoneList(IntQuarter(capacity))
                                         \o << PycsDictEntry(key, value) >>)],
                    ret |-> Return(value)]
         ELSE LET r == SetInBucket(entry.items, key, value) IN
              [table |-> [table EXCEPT ![slot.value] = PyList(r.bucket)],
               ret |-> r.ret]

\* The table after self[key] = value and the outcome of the call.
__setitem__(key, value) ==
    LET slot == Slot(key) IN
    IF slot.kind = "raise" THEN [table |-> table, ret |-> slot]
    ELSE LET entry == table[slot.value] IN
         IF entry.kind = "None"
         THEN [table |-> [table EXCEPT ![slot.value] = PycsDictEntry(key, value)],
               ret |-> Return(value)]
         ELSE IF entry.kind = "PycsDictEntry"
         THEN IF entry.key = key
              THEN [table |-> [table EXCEPT ![slot.value].value = value],
                    ret |-> Return(entry.value)]
              ELSE [table |-> [table EXCEPT ![slot.value] =
                                  PyList(NoneList(IntQuarter(capacity))
                                         \o << entry, PycsDictEntry(key, value) >>)],
                    ret |-> Return(value)]
         ELSE LET r == SetInBucket(entry.items, key, value) IN
              [table |-> [table EXCEPT ![slot.value] = PyList(r.bucket)],
               ret |-> r.ret]

\* The bucket this call would append to has room left in the model.
WithinChainBound(key) ==
    LET slot == Slot(key) IN
    (slot.kind = "return" /\ table[slot.value].kind = "list")
        => Len(table[slot.value].items) < MaxChain

SetItem(key, value) ==
    /\ WithinChainBound(key)
    /\ LET r == __setitem__(key, value) IN
        /\ table' = r.table
        /\ ret' = r.ret
        /\ lastSet' = IF r.ret.kind = "return"
                      THEN [lastSet EXCEPT ![key] = value]
                      ELSE lastSet
    /\ op' = [name |-> "__setitem__", key |-> key, value |-> value]
    /\ UNCHANGED << size, capacity >>

(***************************************************************************)
(* __str__                                                                 *)
(***************************************************************************)
\* PycsDictEntry.__str__, f'{self.key}: {self.value}': the text of an entry,
\* kept as its two parts.
EntryStr(e) == [str |-> "key: value", key |-> e.key, value |-> e.value]

\* str(e) for an element of a bucket: an entry's text, or the text 'None' of
\* a None element.
ElemStr(e) == IF e.kind = "None" THEN [str |-> "None"] ELSE EntryStr(e)

\* The strings one slot contributes to entries.
SlotStrs(cell) ==
    IF cell.kind = "PycsDictEntry" THEN << EntryStr(cell) >>
    ELSE IF cell.kind = "list"
    THEN [j \in 1..Len(cell.items) |-> ElemStr(cell.items[j])]
    ELSE << >>

RECURSIVE StrsUpTo(_)
\* entries after the first n slots of self.table have been visited.
StrsUpTo(n) == IF n <= 0 THEN << >> ELSE StrsUpTo(n - 1) \o SlotStrs(table[n])

\* str(self): the list entries, which the result joins with ', ' in braces.
__str__ == StrsUpTo(Len(table))

Str ==
    /\ op' = [name |-> "__str__", key |-> << >>, value |-> PyNone]
    /\ ret' = Return(__str__)
    /\ UNCHANGED << size, capacity, table, lastSet >>

Next ==
    \/ \E key \in Keys, value \in Values : SetItem(key, value)
    \/ \E key \in Keys : GetItem(key)
    \/ Str

Spec == Init /\ [][Next]_vars

(***************************************************************************)
(* Observations on a state, used to state the properties.                  *)
(***************************************************************************)
\* The entries a slot holds: none, the single entry, or the entries of its
\* bucket in order (placeholders skipped).
EntriesOf(cell) ==
    IF cell.kind = "PycsDictEntry" THEN << cell >>
    ELSE IF cell.kind = "list"
    THEN SelectSeq(cell.items, LAMBDA e : e.kind = "PycsDictEntry")
    ELSE << >>

\* Length of a slot seen as a bucket: 0, 1, or len() of its list.
BucketLen(cell) ==
    IF cell.kind = "PycsDictEntry" THEN 1
    ELSE IF cell.kind = "list" THEN Len(cell.items)
    ELSE 0

RECURSIVE SumOver(_, _)
\* Sum of f[i] for i in 1..n.
SumOver(f, n) == IF n <= 0 THEN 0 ELSE f[n] + SumOver(f, n - 1)

\* Number of stored entries.
Count == SumOver([i \in 1..Len(table) |-> Len(EntriesOf(table[i]))], Len(table))

\* Sum of the lengths of all buckets.
SumBucketLen == SumOver([i \in 1..Len(table) |-> BucketLen(table[i])], Len(table))

\* Keys that have an entry somewhere in the table.
StoredKeys ==
    {k \in Keys : \E i \in 1..Len(table) :
        \E j \in 1..Len(EntriesOf(table[i])) : EntriesOf(table[i])[j].key = k}

\* The last call was self[key] = value / a __setitem__ that returned.
IsSet(o, key, value) == o = [name |-> "__setitem__", key |-> key, value |-> value]
SetReturned == op.name = "__setitem__" /\ ret.kind = "return"

(***************************************************************************)
(* Properties.                                                             *)
(***************************************************************************)

\* C1 - Round-trip: in a table built with a positive initial size, get(k)
\* for a key k that has been set returns the value most recently set for k.
C1_RoundTrip ==
    \A k \in Keys :
        (capacity > 0 /\ lastSet[k] # PyNone)
            => __getitem__(k) = Return(lastSet[k])

\* C2 - Absence: get(k) for a key k that was never set signals KeyError and
\* no other failure, whatever the shape of the slot k maps to.
C2_Absence ==
    \A k \in Keys :
        (capacity > 0 /\ lastSet[k] = PyNone)
            => __getitem__(k) = Raise("KeyError")

\* C3 - Overwrite: when k is present with value v1, set(k, v2) returns v1,
\* a following get(k) returns v2, and the number of stored entries is
\* unchanged.
C3_Overwrite ==
    [][\A k \in Keys, v2 \in Values :
          (k \in StoredKeys /\ IsSet(op', k, v2))
              => /\ ret' = Return(lastSet[k])
                 /\ (__getitem__(k))' = Return(v2)
                 /\ Count' = Count]_vars

\* C4 - set(k, v) for a key k that is not present returns None.
C4_NewKeyReturnsNone ==
    [][\A k \in Keys, v \in Values :
          (capacity > 0 /\ k \notin StoredKeys /\ IsSet(op', k, v))
              => ret' = Return(PyNone)]_vars

\* C5 - Key uniqueness: no slot contains two entries with equal keys.
C5_KeyUniqueness ==
    \A i \in 1..Len(table) :
        \A j1, j2 \in 1..Len(EntriesOf(table[i])) :
            EntriesOf(table[i])[j1].key = EntriesOf(table[i])[j2].key => j1 = j2

\* C6 - Collision handling: two distinct keys that map to the same bucket
\* index and have both been set are each retrieved with their own last value,
\* whatever sets followed.
C6_CollisionHandling ==
    \A a, b \in Keys :
        (/\ a # b
         /\ capacity > 0
         /\ _get_bucket_index(HashOf[a], capacity) = _get_bucket_index(HashOf[b], capacity)
         /\ lastSet[a] # PyNone
         /\ lastSet[b] # PyNone)
            => /\ __getitem__(a) = Return(lastSet[a])
               /\ __getitem__(b) = Return(lastSet[b])

\* C7 - Capacity is strictly positive in every reachable state, for every
\* constructor argument, so that computing a bucket index never divides by
\* zero and never indexes outside the array.
C7_CapacityPositive ==
    /\ capacity > 0
    /\ \A k \in Keys : Slot(k).kind = "return"

\* C8 - Load factor: after every completed set, count <= 0.75 * capacity.
C8_LoadFactor == SetReturned => 4 * Count <= 3 * capacity

\* C9 - Count invariant: after a sequence of operations the table's size
\* equals the number of distinct keys present, which equals the sum of the
\* lengths of all buckets.
C9_CountInvariant ==
    SetReturned => /\ size = Cardinality(StoredKeys)
                   /\ Cardinality(StoredKeys) = SumBucketLen

\* C10 - Placement: every stored entry with key K is held in the slot whose
\* index is digest(K) mod capacity.
C10_Placement ==
    \A i \in 1..Len(table) :
        \A j \in 1..Len(EntriesOf(table[i])) :
            /\ capacity > 0
            /\ i - 1 = BigMod(HashOf[EntriesOf(table[i])[j].key], capacity)

\* C10 witness: a collision bucket with two entries beside a slot, not the
\* first one, that holds a single entry.
C10_Witness ==
    \E i, j \in 1..Len(table) :
        /\ table[i].kind = "list"
        /\ Len(EntriesOf(table[i])) >= 2
        /\ j > 1
        /\ table[j].kind = "PycsDictEntry"

\* The limb sequence without its high-order zero limbs.
RECURSIVE BigNorm(_)
BigNorm(a) ==
    IF a = << >> THEN a
    ELSE IF a[Len(a)] = 0 THEN BigNorm(SubSeq(a, 1, Len(a) - 1))
    ELSE a

\* a mod 2^64: the eight low-order limbs.
Low64(a) == BigNorm(SubSeq(a, 1, IF Len(a) < 8 THEN Len(a) ELSE 8))

RECURSIVE FNV1a64From(_, _)
\* The reference fold: acc = ((acc XOR B) * prime) mod 2^64 for each byte B.
FNV1a64From(acc, key) ==
    IF key = << >> THEN acc
    ELSE FNV1a64From(Low64(BigMul(BigXor(acc, BigFromNat(Head(key))), FNV1A_PRIME)),
                     Tail(key))

\* FNV-1a with unsigned 64-bit wraparound, started from the offset basis.
FNV1a64(key) == FNV1a64From(FNV1A_OFFSET, key)

\* C11 - The digest computed for the key of every get and set is the FNV-1a
\* reference with 64-bit wraparound; it lies in [0, 2^64), and the digest of
\* the empty key is the offset basis.
C11_DigestFNV1a64 ==
    op.name \in {"__getitem__", "__setitem__"}
        => /\ BigNorm(HashOf[op.key]) = FNV1a64(op.key)
           /\ Len(BigNorm(HashOf[op.key])) <= 8
           /\ (op.key = << >> => HashOf[op.key] = FNV1A_OFFSET)

\* C12 - In a table built with a positive initial size, set(k, v) completes
\* without raising for every key, and get(k) completes without raising for
\* every key that is present.
C12_NeverFails ==
    capacity > 0 =>
        \A k \in Keys :
            /\ \A v \in Values : __setitem__(k, v).ret.kind = "return"
            /\ k \in StoredKeys => __getitem__(k).kind = "return"

\* The positions of the rendered items that are the text of an entry with
\* key k.
ItemsFor(strs, k) ==
    {j \in 1..Len(strs) : strs[j].str = "key: value" /\ strs[j].key = k}

\* C13 - The dump lists every live key exactly once: the items rendered by
\* the display operation contain one item per key present, no key twice, and
\* no item that is not a live entry.
C13_StrListsLiveKeysOnce ==
    (op.name = "__str__" /\ ret.kind = "return") =>
        /\ \A j \in 1..Len(ret.value) : ret.value[j].str = "key: value"
        /\ \A k \in Keys :
              Cardinality(ItemsFor(ret.value, k)) = (IF k \in StoredKeys THEN 1 ELSE 0)

\* C14 - Uniform bucket content: every element of every collision bucket is
\* an entry, and a bucket created when a second key collides with a stored
\* one holds exactly the old entry and the new entry.
C14_UniformBuckets ==
    [][\A i \in 1..Len(table') :
          table'[i].kind = "list" =>
              /\ \A j \in 1..Len(table'[i].items) :
                    table'[i].items[j].kind = "PycsDictEntry"
              /\ table[i].kind = "PycsDictEntry" =>
                    table'[i].items =
                        << table[i], PycsDictEntry(op'.key, op'.value) >>]_vars

\* C15 - get is a pure lookup: a get(k) step leaves the capacity, the size
\* and the whole table (every slot, bucket and stored value) unchanged,
\* whether it returns a value or raises.
C15_GetIsPure ==
    [][op'.name = "__getitem__"
          => (capacity' = capacity /\ size' = size /\ table' = table)]_vars

\* C15 witness: a get has returned the value of an entry found in a bucket.
C15_Witness ==
    /\ op.name = "__getitem__"
    /\ ret.kind = "return"
    /\ table[Slot(op.key).value].kind = "list"

\* The entries of a slot whose key differs from k, in order.
OtherEntries(cell, k) == SelectSeq(EntriesOf(cell), LAMBDA e : e.key # k)

\* C16 - set touches one slot only: a set(k, v) step changes no slot other
\* than the one at index digest(k) mod capacity, and in that slot no entry
\* whose key differs from k.
C16_SetTouchesOneSlot ==
    [][\A k \in Keys, v \in Values :
          IsSet(op', k, v) =>
              IF capacity > 0
              THEN LET p == BigMod(HashOf[k], capacity) + 1 IN
                   /\ Len(table') = Len(table)
                   /\ \A i \in 1..Len(table) : i # p => table'[i] = table[i]
                   /\ OtherEntries(table'[p], k) = OtherEntries(table[p], k)
              ELSE table' = table]_vars

\* C16 witness: a set has returned after writing into a bucket that also
\* holds an entry with another key, while another slot is occupied.
C16_Witness ==
    /\ SetReturned
    /\ capacity > 0
    /\ LET p == BigMod(HashOf[op.key], capacity) + 1 IN
        /\ table[p].kind = "list"
        /\ OtherEntries(table[p], op.key) # << >>
        /\ \E i \in 1..Len(table) : i # p /\ table[i].kind # "None"

\* C17 - Stored keys are never lost: a key whose set has completed has an
\* entry in the table in every later state.
C17_KeysNeverLost == \A k \in Keys : lastSet[k] # PyNone => k \in StoredKeys

\* C17 witness: after a single-entry slot became a bucket and a later get,
\* two keys set earlier are both still stored in that bucket.
C17_Witness ==
    /\ op.name = "__getitem__"
    /\ \E i \in 1..Len(table) :
          /\ table[i].kind = "list"
          /\ \E j1, j2 \in 1..Len(EntriesOf(table[i])) :
                /\ EntriesOf(table[i])[j1].key # EntriesOf(table[i])[j2].key
                /\ lastSet[EntriesOf(table[i])[j1].key] # PyNone
                /\ lastSet[EntriesOf(table[i])[j2].key] # PyNone

====
